---------------------------- MODULE Spec2Model ----------------------------
(***************************************************************************)
(* A model of the journal scraper: database.py (the article store) and     *)
(* app.py (field extractors, citation formatters, scrape_website,          *)
(* discover_article_links, process_links, the DOI validator loop and the   *)
(* reset confirmation flow).                                               *)
(*                                                                         *)
(* Text is modelled as a sequence of string tokens (a Python str is the    *)
(* concatenation of its tokens); the tokens are chosen so that every       *)
(* substring test, replace and split of the code falls on token            *)
(* boundaries.  None and a raised exception are marker values.             *)
(***************************************************************************)
EXTENDS Integers, Sequences, FiniteSets, TLC

(***************************************************************************)
(* Bounds of the model.                                                    *)
(***************************************************************************)
MaxLinks == 3      \* longest submitted list of links
MaxDisc == 2       \* longest list of hrefs a listing page yields
MaxDay == 1        \* how many times the calendar day advances
MaxOps == 1        \* user operations (batches, validator passes, deletions, resets)

(***************************************************************************)
(* Python values that are not text.                                        *)
(***************************************************************************)
None == <<"!None">>
KeyError == <<"!KeyError">>
ValueError == <<"!ValueError">>
IndexError == <<"!IndexError">>
Raised == {KeyError, ValueError, IndexError}

\* bool(x) of a str or None
Truthy(x) == x # None /\ x # <<>>

(***************************************************************************)
(* HTML tags of a parsed page.  soup.find returns None (NoTag) or a tag;   *)
(* tag['content'] raises KeyError when the attribute is missing.           *)
(***************************************************************************)
NoTag == [k |-> "absent"]
NoAttr == [k |-> "noattr"]
Meta(v) == [k |-> "content", v |-> v]
Content(tag) == IF tag.k = "content" THEN tag.v ELSE KeyError

\* Sentinels of the extractors
JournalNotFound == <<"Journal Name Not Found">>
TitleNotFound == <<"Paper Title Not Found">>
AuthorsNotFound == <<"Authors Not Found">>
YearNotFound == <<"Year Not Found">>
TypeNotFound == <<"Type Not Found">>
VolumeNotFound == <<"Volume Not Found">>
VolumeNotFoundTOC == <<"Volume Not Found (from TOC)">>
PageNotFound == <<"Page Not Found">>
AbstractNotFound == <<"Abstract Not Found">>
KeywordsNotFound == <<"Keywords Not Found">>
DOINotFound == <<"DOI Not Found">>
NotChecked == <<"Not Checked">>

(***************************************************************************)
(* Text helpers.                                                           *)
(***************************************************************************)
RECURSIVE Join(_, _)
\* sep.join(list) for a sequence of texts
Join(list, sep) ==
    IF list = <<>> THEN <<>>
    ELSE IF Len(list) = 1 THEN list[1]
    ELSE list[1] \o sep \o Join(Tail(list), sep)

RECURSIVE SplitOn(_, _)
\* s.split(sep) for a one-token separator: the list of the parts
SplitOn(s, sep) ==
    IF \A i \in 1..Len(s) : s[i] # sep THEN <<s>>
    ELSE LET i == CHOOSE j \in 1..Len(s) :
                      s[j] = sep /\ \A h \in 1..(j - 1) : s[h] # sep
         IN  <<SubSeq(s, 1, i - 1)>> \o SplitOn(SubSeq(s, i + 1, Len(s)), sep)

\* s.replace(old, new) for one-token old and new
ReplaceTok(s, old, new) == [i \in 1..Len(s) |-> IF s[i] = old THEN new ELSE s[i]]

\* s.replace(old, '') for a one-token old
RemoveTok(s, old) == SelectSeq(s, LAMBDA t : t # old)

\* whether text sub occurs in text s
Contains(s, sub) ==
    \E i \in 0..(Len(s) - Len(sub)) : SubSeq(s, i + 1, i + Len(sub)) = sub

(***************************************************************************)
(* Field extractors (app.py 18-129).  A page is a record of the signals    *)
(* the extractors look at; each extractor returns a text, or a marker of   *)
(* Raised when the Python code raises.                                     *)
(***************************************************************************)
extract_journal_name(soup) ==
    IF soup.citation_journal_title # NoTag THEN Content(soup.citation_journal_title)
    ELSE IF soup.og_site_name # NoTag THEN Content(soup.og_site_name)
    ELSE JournalNotFound

extract_paper_title(soup) ==
    LET og == soup.og_title
        viaOg == IF og = NoTag THEN "skip"
                 ELSE IF Content(og) \in Raised THEN "raise"
                 ELSE IF extract_journal_name(soup) \in Raised THEN "raiseJ"
                 ELSE IF Content(og) # extract_journal_name(soup) THEN "take"
                 ELSE "skip"
    IN  CASE viaOg = "raise" -> KeyError
          [] viaOg = "raiseJ" -> extract_journal_name(soup)
          [] viaOg = "take" -> Content(og)
          [] OTHER ->
               IF soup.citation_title # NoTag THEN Content(soup.citation_title)
               ELSE IF soup.h1 # None THEN soup.h1
               ELSE TitleNotFound

extract_full_authors(soup) ==
    LET authors == soup.citation_author
    IN  IF authors # <<>>
        THEN IF \E i \in 1..Len(authors) : Content(authors[i]) \in Raised
             THEN KeyError
             ELSE Join([i \in 1..Len(authors) |-> Content(authors[i])], <<", ">>)
        ELSE AuthorsNotFound

\* month_full.capitalize()[:3] of the word the visible-date pattern matched
Cap3(word) ==
    CASE word \in {"July", "july", "JULY"} -> "Jul"
      [] word \in {"March", "march"} -> "Mar"
      [] word = "on" -> "On"
      [] OTHER -> word

\* whether int(s) succeeds: s is one decimal token
IsInt(s) ==
    Len(s) = 1 /\ s[1] \in {"1", "01", "7", "07", "12", "13", "0", "00", "-3"}

\* int(s) for a text with IsInt(s)
IntOf(s) ==
    CASE s[1] \in {"1", "01"} -> 1
      [] s[1] \in {"7", "07"} -> 7
      [] s[1] = "12" -> 12
      [] s[1] = "13" -> 13
      [] s[1] \in {"0", "00"} -> 0
      [] s[1] = "-3" -> -3

MonthAbbrs == <<"Jan", "Feb", "Mar", "Apr", "May", "Jun",
                "Jul", "Aug", "Sep", "Oct", "Nov", "Dec">>

\* whether list[i] of Python succeeds: a negative index counts from the end
InRange(list, i) == i < Len(list) /\ i >= -Len(list)

\* list[i] of Python for an index with InRange(list, i)
PyIndex(list, i) == IF i >= 0 THEN list[i + 1] ELSE list[Len(list) + i + 1]

\* returns [year, month], or [raise |-> marker]
extract_publication_date(soup) ==
    IF soup.published # None
    THEN [year |-> <<soup.published[2]>>, month |-> <<Cap3(soup.published[1])>>]
    ELSE IF soup.citation_publication_date # NoTag
    THEN LET date_str == Content(soup.citation_publication_date)
             parts == SplitOn(date_str, "/")
         IN  IF date_str \in Raised THEN [raise |-> KeyError]
             ELSE IF Len(parts) > 1 /\ ~IsInt(parts[2]) THEN [raise |-> ValueError]
             ELSE LET month_num == IF Len(parts) > 1 THEN IntOf(parts[2]) ELSE 1
                  IN  IF ~InRange(MonthAbbrs, month_num - 1)
                      THEN [raise |-> IndexError]
                      ELSE [year |-> parts[1],
                            month |-> <<PyIndex(MonthAbbrs, month_num - 1)>>]
    ELSE [year |-> YearNotFound, month |-> None]

extract_type(soup) ==
    IF soup.section # None THEN soup.section ELSE TypeNotFound

\* a volume that prefers the page's own meta tags to the pre-scraped string
extract_volume_MetaFirst(soup, pre_scraped_volume_issue) ==
    LET vol == IF soup.citation_volume # NoTag
               THEN Content(soup.citation_volume) ELSE None
        iss == IF soup.citation_issue # NoTag
               THEN Content(soup.citation_issue) ELSE None
    IN  IF vol \in Raised THEN vol
        ELSE IF iss \in Raised THEN iss
        ELSE IF Truthy(vol) /\ Truthy(iss) THEN vol \o <<"(">> \o iss \o <<")">>
        ELSE IF Truthy(vol) THEN vol
        ELSE IF Truthy(pre_scraped_volume_issue)
                /\ pre_scraped_volume_issue # VolumeNotFoundTOC
        THEN pre_scraped_volume_issue
        ELSE VolumeNotFound

extract_volume(soup, pre_scraped_volume_issue) ==
    IF Truthy(pre_scraped_volume_issue) /\ pre_scraped_volume_issue # VolumeNotFoundTOC
    THEN pre_scraped_volume_issue
    ELSE LET vol == IF soup.citation_volume # NoTag
                    THEN Content(soup.citation_volume) ELSE None
             iss == IF soup.citation_issue # NoTag
                    THEN Content(soup.citation_issue) ELSE None
         IN  IF vol \in Raised THEN vol
             ELSE IF iss \in Raised THEN iss
             ELSE IF Truthy(vol) /\ Truthy(iss) THEN vol \o <<"(">> \o iss \o <<")">>
             ELSE IF Truthy(vol) THEN vol
             ELSE VolumeNotFound

\* a page range that does not collapse identical first and last pages
extract_page_NoCollapse(soup) ==
    LET first_page == Content(soup.citation_firstpage)
        last_page == Content(soup.citation_lastpage)
        both == soup.citation_firstpage # NoTag /\ soup.citation_lastpage # NoTag
        fallback == IF soup.pages_span # None THEN soup.pages_span ELSE PageNotFound
    IN  IF both
        THEN IF first_page \in Raised THEN first_page
             ELSE IF last_page \in Raised THEN last_page
             ELSE IF Truthy(first_page) /\ Truthy(last_page)
                  THEN first_page \o <<"-">> \o last_page
             ELSE fallback
        ELSE fallback

extract_page(soup) ==
    LET first_page == Content(soup.citation_firstpage)
        last_page == Content(soup.citation_lastpage)
        both == soup.citation_firstpage # NoTag /\ soup.citation_lastpage # NoTag
        fallback == IF soup.pages_span # None THEN soup.pages_span ELSE PageNotFound
    IN  IF both
        THEN IF first_page \in Raised THEN first_page
             ELSE IF last_page \in Raised THEN last_page
             ELSE IF Truthy(first_page) /\ first_page = last_page THEN first_page
             ELSE IF Truthy(first_page) /\ Truthy(last_page)
                  THEN first_page \o <<"-">> \o last_page
             ELSE fallback
        ELSE fallback

extract_abstract(soup) ==
    IF soup.og_description # NoTag THEN Content(soup.og_description)
    ELSE IF soup.abstract_div # None THEN soup.abstract_div
    ELSE AbstractNotFound

extract_keywords(soup) ==
    IF soup.citation_keywords # NoTag
    THEN IF Content(soup.citation_keywords) \in Raised THEN KeyError
         ELSE ReplaceTok(Content(soup.citation_keywords), ";", ",")
    ELSE KeywordsNotFound

extract_doi(soup) ==
    IF soup.citation_doi # NoTag THEN Content(soup.citation_doi) ELSE DOINotFound

(***************************************************************************)
(* Citation formatters (app.py 133-177).  data is a Python dict: a         *)
(* function from its keys to texts; data[k] of a missing key raises        *)
(* KeyError, and str + None raises TypeError.                              *)
(***************************************************************************)
APAFailed == <<"APA Citation could not be generated (missing data).">>
IEEEFailed == <<"IEEE Citation could not be generated (missing data).">>

\* str(x) as an f-string renders it
Str(x) == IF x = None THEN <<"None">> ELSE x

\* p[0] of a word
Initial(word) ==
    CASE word = "Ann" -> "A"
      [] word = "Bo" -> "B"
      [] word = "Kim" -> "K"
      [] word = "Lee" -> "L"
      [] OTHER -> word

\* name.split(): the words of a name, its blanks dropped
Words(name) == SelectSeq(SplitOn(name, " "), LAMBDA part : part # <<>>)

\* [p[0] + '.' for p in parts[:-1]] joined with ' '
Initials(parts) ==
    Join([i \in 1..(Len(parts) - 1) |-> <<Initial(parts[i][1]), ".">>], <<" ">>)

format_authors(author_string, style) ==
    IF ~Truthy(author_string) \/ author_string = AuthorsNotFound THEN AuthorsNotFound
    ELSE LET author_list == SplitOn(author_string, ", ")
             named == SelectSeq(author_list, LAMBDA name : Words(name) # <<>>)
             formatted_names ==
                 [i \in 1..Len(named) |->
                     LET parts == Words(named[i])
                         last_name == parts[Len(parts)]
                     IN  IF style = "apa"
                         THEN last_name \o <<", ">> \o Initials(parts)
                         ELSE Initials(parts) \o <<" ">> \o last_name]
         IN  IF formatted_names = <<>> THEN AuthorsNotFound
             ELSE IF style = "apa"
             THEN IF Len(formatted_names) > 1
                  THEN Join(SubSeq(formatted_names, 1, Len(formatted_names) - 1), <<", ">>)
                       \o <<", & ">> \o formatted_names[Len(formatted_names)]
                  ELSE formatted_names[1]
             ELSE Join(formatted_names, <<" and ">>)

Has(data, keys) == keys \subseteq DOMAIN data

generate_apa_citation(data) ==
    IF ~Has(data, {"Full Authors", "Year Published", "Paper Title", "Journal Name",
                   "Volume", "Page", "raw_doi"})
    THEN APAFailed                                  \* KeyError
    ELSE IF data["Paper Title"] = None THEN APAFailed   \* TypeError: None + "."
    ELSE LET authors_apa == format_authors(data["Full Authors"], "apa")
             journal_info ==
                 Str(data["Journal Name"]) \o <<", ">> \o Str(data["Volume"])
                 \o (IF data["Page"] # PageNotFound
                     THEN <<", ">> \o Str(data["Page"]) ELSE <<>>)
         IN  Join(<< authors_apa \o <<".">>,
                     <<"(">> \o Str(data["Year Published"]) \o <<").">>,
                     data["Paper Title"] \o <<".">>,
                     journal_info \o <<".">>,
                     <<"https://doi.org/">> \o Str(data["raw_doi"]) >>, <<" ">>)

IsDigits(tok) == tok \in {"0", "1", "2", "3", "4", "5", "7", "10", "12", "13"}

\* re.search(r'(\d+)\((\d+)\)', text): the positions of the leftmost match
VolMatches(text) ==
    {i \in 1..(Len(text) - 3) :
        IsDigits(text[i]) /\ text[i + 1] = "(" /\ IsDigits(text[i + 2])
        /\ text[i + 3] = ")"}

generate_ieee_citation(data) ==
    IF ~Has(data, {"Full Authors", "Volume"}) THEN IEEEFailed
    ELSE IF data["Volume"] = None THEN IEEEFailed       \* TypeError in re.search
    ELSE IF ~Has(data, {"Journal Name", "Paper Title", "Page", "month"}) THEN IEEEFailed
    ELSE IF Truthy(data["month"]) /\ ~Has(data, {"Year Published"}) THEN IEEEFailed
    ELSE IF ~Has(data, {"raw_doi"}) THEN IEEEFailed
    ELSE LET authors_ieee == format_authors(data["Full Authors"], "ieee")
             m == VolMatches(data["Volume"])
             journal_part ==
                 IF m # {}
                 THEN LET i == CHOOSE j \in m : \A h \in m : j <= h
                      IN  Str(data["Journal Name"]) \o <<", vol. ", data["Volume"][i],
                                                        ", no. ", data["Volume"][i + 2], ",">>
                 ELSE Str(data["Journal Name"]) \o <<", vol. ">> \o data["Volume"] \o <<",">>
             pagePart == IF data["Page"] # PageNotFound
                         THEN << <<"pp. ">> \o Str(data["Page"]) \o <<",">> >> ELSE <<>>
             datePart == IF Truthy(data["month"]) /\ Truthy(data["Year Published"])
                         THEN << data["month"] \o <<". ">> \o data["Year Published"]
                                 \o <<",">> >>
                         ELSE <<>>
         IN  Join(<< authors_ieee \o <<",">>,
                     <<"\"">> \o Str(data["Paper Title"]) \o <<",\"">>,
                     journal_part >>
                  \o pagePart \o datePart
                  \o << <<"doi: ">> \o Str(data["raw_doi"]) \o <<".">> >>, <<" ">>)

(***************************************************************************)
(* scrape_website (app.py 181-206).  fetch is what requests.get and        *)
(* raise_for_status give: [ok |-> FALSE] for a transport error or a        *)
(* non-success status, [ok |-> TRUE, soup |-> page] otherwise.  Any        *)
(* exception, of the fetch or of an extractor, is caught and None is       *)
(* returned.                                                               *)
(***************************************************************************)
ScrapedColumns ==
    {"Journal Name", "Paper Title", "Full Authors", "Year Published", "Volume", "Type",
     "Page", "Abstract", "Keywords", "DOI/Link Updated", "APA Citation", "Citation IEEE"}

\* a link field that is the raw DOI without the resolver in front
DoiLink_Raw(raw_doi) == raw_doi

\* line 199: f"https://doi.org/{raw_doi}" if raw_doi != "DOI Not Found" else "DOI Not Found"
DoiLink(raw_doi) ==
    IF raw_doi # DOINotFound THEN <<"https://doi.org/">> \o raw_doi ELSE DOINotFound

\* lines 188-204: the record built from a fetched page, None when an extractor
\* raises
ScrapeParsed(url, soup, pre_scraped_volume_issue) ==
    LET date_info == extract_publication_date(soup)
        raw_doi == extract_doi(soup)
        fields == [c \in ScrapedColumns \ {"Year Published", "DOI/Link Updated",
                                           "APA Citation", "Citation IEEE"} |->
            CASE c = "Journal Name" -> extract_journal_name(soup)
              [] c = "Paper Title" -> extract_paper_title(soup)
              [] c = "Full Authors" -> extract_full_authors(soup)
              [] c = "Volume" -> extract_volume(soup, pre_scraped_volume_issue)
              [] c = "Type" -> extract_type(soup)
              [] c = "Page" -> extract_page(soup)
              [] c = "Abstract" -> extract_abstract(soup)
              [] c = "Keywords" -> extract_keywords(soup)]
    IN  IF "raise" \in DOMAIN date_info \/ raw_doi \in Raised
           \/ \E c \in DOMAIN fields : fields[c] \in Raised
        THEN None
        ELSE LET scraped_data ==
                     fields @@
                     [c \in {"Website Link", "Year Published", "DOI/Link Updated",
                             "month", "raw_doi"} |->
                         CASE c = "Website Link" -> url
                           [] c = "Year Published" -> date_info.year
                           [] c = "DOI/Link Updated" -> DoiLink(raw_doi)
                           [] c = "month" -> date_info.month
                           [] c = "raw_doi" -> raw_doi]
                 withApa == scraped_data @@
                     [c \in {"APA Citation"} |-> generate_apa_citation(scraped_data)]
             IN  withApa @@
                 [c \in {"Citation IEEE"} |-> generate_ieee_citation(withApa)]

\* a scraper that answers a failed fetch with a record of empty fields
scrape_website_Placeholder(url, fetch, pre_scraped_volume_issue) ==
    IF ~fetch.ok
    THEN [c \in {"Website Link"} \cup ScrapedColumns |->
             IF c = "Website Link" THEN url ELSE <<>>]
    ELSE ScrapeParsed(url, fetch.soup, pre_scraped_volume_issue)

scrape_website(url, fetch, pre_scraped_volume_issue) ==
    IF ~fetch.ok THEN None
    ELSE ScrapeParsed(url, fetch.soup, pre_scraped_volume_issue)

(***************************************************************************)
(* The store (database.py).  The articles table is the sequence of its     *)
(* rows in rowid order; a row is a function from the column names.         *)
(***************************************************************************)
Columns == {"Website Link"} \cup ScrapedColumns \cup {"Remarks", "last_validated"}

\* data_dict.get(key, default)
Get(data_dict, key, default) ==
    IF key \in DOMAIN data_dict THEN data_dict[key] ELSE default

\* the row an INSERT of data_dict writes: a column the statement does not list
\* (last_validated) is NULL
RowOf(data_dict) ==
    [c \in Columns |->
        CASE c = "Remarks" -> Get(data_dict, "Remarks", NotChecked)
          [] c = "last_validated" -> None
          [] OTHER -> Get(data_dict, c, None)]

\* a plain INSERT into a table without the primary key
add_or_update_article_Insert(articles, data_dict) ==
    Append(articles, RowOf(data_dict))

\* INSERT OR IGNORE: a row with the same primary key is kept
add_or_update_article_Ignore(articles, data_dict) ==
    IF \E i \in 1..Len(articles) :
          articles[i]["Website Link"] = RowOf(data_dict)["Website Link"]
    THEN articles
    ELSE Append(articles, RowOf(data_dict))

\* an upsert that keeps the validation state of the row it replaces
add_or_update_article_Merge(articles, data_dict) ==
    LET row == RowOf(data_dict)
        link == row["Website Link"]
        old == SelectSeq(articles, LAMBDA r : r["Website Link"] = link)
    IN  Append(SelectSeq(articles, LAMBDA r : r["Website Link"] # link),
               IF old = <<>> THEN row
               ELSE [row EXCEPT !["Remarks"] = old[1]["Remarks"],
                                !["last_validated"] = old[1]["last_validated"]])

\* INSERT OR REPLACE: a row with the same primary key is deleted, then the new row
\* is appended (a NULL key conflicts with no row)
add_or_update_article(articles, data_dict) ==
    LET row == RowOf(data_dict)
        link == row["Website Link"]
    IN  Append(SelectSeq(articles,
                   LAMBDA r : ~(link # None /\ r["Website Link"] = link)), row)

\* an UPDATE without its WHERE clause
update_article_remark_NoWhere(articles, link, remark, today_iso) ==
    [i \in 1..Len(articles) |->
        [articles[i] EXCEPT !["Remarks"] = remark, !["last_validated"] = today_iso]]

\* UPDATE articles SET Remarks, last_validated WHERE "Website Link" = link
update_article_remark(articles, link, remark, today_iso) ==
    [i \in 1..Len(articles) |->
        IF articles[i]["Website Link"] = link
        THEN [articles[i] EXCEPT !["Remarks"] = remark, !["last_validated"] = today_iso]
        ELSE articles[i]]

\* SELECT * FROM articles
get_all_articles_df(articles) == articles

\* SELECT * FROM articles WHERE Remarks = 'Not Checked'
get_unchecked_articles_df(articles) ==
    SelectSeq(articles, LAMBDA r : r["Remarks"] = NotChecked)

\* DELETE FROM articles WHERE "Website Link" IN (links_to_delete)
delete_articles_by_link(articles, links_to_delete) ==
    IF links_to_delete = {} THEN articles
    ELSE SelectSeq(articles, LAMBDA r : r["Website Link"] \notin links_to_delete)

\* DELETE FROM articles
clear_all_data(articles) == <<>>

\* set(existing_df['Website Link'])
LinksOf(rows) == {rows[i]["Website Link"] : i \in 1..Len(rows)}

(***************************************************************************)
(* Listing (table of contents) pages: link discovery and the volume/issue  *)
(* text parser (app.py 208-276).  A listing page is a record of headings   *)
(* (the texts of the first title, h1, h2, h3, h4 tags it has, in that      *)
(* order) and sel (for each selector, the href of every anchor it selects, *)
(* KeyError for an anchor without href).                                   *)
(***************************************************************************)
VolWords == {"Volume", "Vol", "vol", "VOLUME"}

\* a token that starts with an issue keyword, and what follows the keyword in it
IssueWords == {"Issue", "Iss", "No", "no", "ISSUE", "November", "Notes"}
AfterKeyword(tok) ==
    CASE tok = "November" -> "vember"
      [] tok = "Notes" -> "tes"
      [] OTHER -> ""

IsAlnum(tok) == tok \notin {" ", ".", ",", ":", "(", ")", "/", "-", "|"}

RECURSIVE SkipSpaces(_, _)
\* the first position from j on that holds no blank
SkipSpaces(text, j) ==
    IF j <= Len(text) /\ text[j] = " " THEN SkipSpaces(text, j + 1) ELSE j

At(text, j) == IF j >= 1 /\ j <= Len(text) THEN text[j] ELSE ""

\* (?:Volume|Vol)\.?\s*(\d+) matched at position i: group 1, or None
VolGroupAt(text, i) ==
    IF At(text, i) \notin VolWords THEN None
    ELSE LET j == SkipSpaces(text, IF At(text, i + 1) = "." THEN i + 2 ELSE i + 1)
         IN  IF IsDigits(At(text, j)) THEN <<text[j]>> ELSE None

\* (?:Issue|Iss|No)\.?\s*([A-Z0-9]+(?:\s[A-Z0-9]+)?) matched at position i
IssGroupAt(text, i) ==
    IF At(text, i) \notin IssueWords THEN None
    ELSE LET rest == AfterKeyword(text[i])
             j == IF rest # "" THEN i
                  ELSE SkipSpaces(text, IF At(text, i + 1) = "." THEN i + 2 ELSE i + 1)
             first == IF rest # "" THEN rest ELSE At(text, j)
             second == IF At(text, j + 1) = " " /\ At(text, j + 2) # ""
                          /\ IsAlnum(At(text, j + 2))
                       THEN <<" ", text[j + 2]>> ELSE <<>>
         IN  IF first # "" /\ IsAlnum(first) THEN <<first>> \o second ELSE None

\* _find_pattern with the one pattern of each list: group 1 of the leftmost match
FindVolume(text) ==
    LET hits == {i \in 1..Len(text) : VolGroupAt(text, i) # None}
    IN  IF hits = {} THEN None
        ELSE VolGroupAt(text, CHOOSE i \in hits : \A h \in hits : i <= h)

FindIssue(text) ==
    LET hits == {i \in 1..Len(text) : IssGroupAt(text, i) # None}
    IN  IF hits = {} THEN None
        ELSE IssGroupAt(text, CHOOSE i \in hits : \A h \in hits : i <= h)

_parse_volume_issue_string(text_string) ==
    LET volume == FindVolume(text_string)
        issue == FindIssue(text_string)
    IN  IF Truthy(volume) /\ Truthy(issue)
        THEN volume \o <<"(">> \o RemoveTok(issue, " ") \o <<")">>
        ELSE IF Truthy(volume) THEN volume
        ELSE None

_extract_volume_from_toc_page(fetch) ==
    IF ~fetch.ok THEN VolumeNotFoundTOC
    ELSE LET h == fetch.soup.headings
             hits == {i \in 1..Len(h) : Truthy(_parse_volume_issue_string(h[i]))}
         IN  IF hits = {} THEN VolumeNotFoundTOC
             ELSE _parse_volume_issue_string(h[CHOOSE i \in hits : \A k \in hits : i <= k])

discover_article_links(fetch) ==
    IF ~fetch.ok THEN <<>>
    ELSE LET sel == fetch.soup.sel
             bad(l) == \E i \in 1..Len(l) : l[i] = KeyError
         IN  IF bad(sel[1]) THEN <<>>
             ELSE IF sel[1] # <<>> THEN sel[1]
             ELSE IF bad(sel[2]) THEN <<>>
             ELSE IF sel[2] # <<>> THEN sel[2]
             ELSE <<>>

(***************************************************************************)
(* Helpers of process_links (app.py 295-335).                              *)
(***************************************************************************)
RECURSIVE Dedup_KeepLast(_)
\* a deduplication that keeps the last occurrence of each link
Dedup_KeepLast(links) ==
    IF links = <<>> THEN <<>>
    ELSE LET rest == Dedup_KeepLast(Tail(links))
         IN  IF \E i \in 1..Len(rest) : rest[i] = Head(links) THEN rest
             ELSE <<Head(links)>> \o rest

RECURSIVE Dedup(_)
\* list(dict.fromkeys(links)): the first occurrence of each link, in order
Dedup(links) ==
    IF links = <<>> THEN <<>>
    ELSE LET init == Dedup(SubSeq(links, 1, Len(links) - 1))
             last == links[Len(links)]
         IN  IF \E i \in 1..Len(init) : init[i] = last THEN init ELSE Append(init, last)

\* "/issue/view/" in link
IsVolumeLink(link) == Contains(link, <<"/", "issue", "/", "view", "/">>)

\* an entry without its prefix
VolumeLinkEntry_Bare(link) == link

\* f"(Volume Link) {link}"
VolumeLinkEntry(link) == <<"(Volume Link) ">> \o link

(***************************************************************************)
(* The DOI validator's classification (app.py 459-469).  head is what      *)
(* requests.head gives: [err |-> TRUE] for a RequestException, else        *)
(* [err |-> FALSE, status_code, pdf (whether 'application/pdf' is in the   *)
(* Content-Type header), url (the final URL)].                             *)
(***************************************************************************)
RemarkNotFound == <<"Not Found (404)">>
RemarkPDF == <<"PDF">>
RemarkMatch == <<"Match">>
RemarkMismatch == <<"Mismatch">>
RemarkLinkError == <<"Link Error">>

RECURSIVE StripSlashes(_)
\* s.strip('/')
StripSlashes(s) ==
    IF s # <<>> /\ s[1] = "/" THEN StripSlashes(Tail(s))
    ELSE IF s # <<>> /\ s[Len(s)] = "/" THEN StripSlashes(SubSeq(s, 1, Len(s) - 1))
    ELSE s

\* .replace('https://','').replace('http://','').replace('www.','').strip('/')
NormUrl(u) ==
    StripSlashes(RemoveTok(RemoveTok(RemoveTok(u, "https://"), "http://"), "www."))

\* a classification that compares the URLs before it looks at the content type
ValidatorRemark_MatchFirst(head, original_url) ==
    IF head.err THEN RemarkLinkError
    ELSE IF head.status_code = 404 THEN RemarkNotFound
    ELSE IF NormUrl(head.url) = NormUrl(original_url) THEN RemarkMatch
    ELSE IF head.pdf THEN RemarkPDF
    ELSE RemarkMismatch

ValidatorRemark(head, original_url) ==
    IF head.err THEN RemarkLinkError
    ELSE IF head.status_code = 404 THEN RemarkNotFound
    ELSE IF head.pdf THEN RemarkPDF
    ELSE IF NormUrl(head.url) = NormUrl(original_url) THEN RemarkMatch
    ELSE RemarkMismatch

\* date.today().isoformat()
IsoFormat(day) == <<"day", ToString(day)>>

(***************************************************************************)
(* The environment: the URLs a user submits and what the network returns.  *)
(***************************************************************************)
A1 == <<"https://", "j.org", "/", "a1">>
A2 == <<"https://", "www.", "j.org", "/", "a2", "/">>
Vol7 == <<"https://", "j.org", "/", "issue", "/", "view", "/", "7">>
ArticleURLs == {A1, A2}
URLs == ArticleURLs \cup {Vol7}

\* the sequences over S of a length from lo to hi
BoundedSeq(S, lo, hi) == UNION {[1..n -> S] : n \in lo..hi}

\* an article page carrying the structured citation meta tags
PageV1 ==
    [citation_journal_title |-> Meta(<<"J1">>), og_site_name |-> NoTag,
     og_title |-> Meta(<<"T1">>), citation_title |-> NoTag, h1 |-> None,
     citation_author |-> <<Meta(<<"Ann", " ", "Lee">>), Meta(<<"Bo", " ", "Kim">>)>>,
     published |-> None,
     citation_publication_date |-> Meta(<<"2023", "/", "07", "/", "15">>),
     section |-> None,
     citation_volume |-> Meta(<<"4">>), citation_issue |-> Meta(<<"1">>),
     citation_firstpage |-> Meta(<<"10">>), citation_lastpage |-> Meta(<<"20">>),
     pages_span |-> None,
     og_description |-> Meta(<<"abstract one">>), abstract_div |-> None,
     citation_keywords |-> Meta(<<"k1", ";", "k2">>),
     citation_doi |-> Meta(<<"10.1234/x">>)]

\* a later version of a page, built from the fallback signals
PageV2 ==
    [citation_journal_title |-> NoTag, og_site_name |-> Meta(<<"J2">>),
     og_title |-> Meta(<<"J2">>), citation_title |-> NoTag, h1 |-> <<"T2">>,
     citation_author |-> <<Meta(<<"Kim">>)>>,
     published |-> <<"july", "2024">>,
     citation_publication_date |-> NoTag,
     section |-> <<"Research papers">>,
     citation_volume |-> NoTag, citation_issue |-> NoTag,
     citation_firstpage |-> Meta(<<"96">>), citation_lastpage |-> Meta(<<"96">>),
     pages_span |-> <<"1-9">>,
     og_description |-> NoTag, abstract_div |-> <<"abstract two">>,
     citation_keywords |-> NoTag,
     citation_doi |-> NoTag]

\* a page whose title tag has no content attribute
PageNoAttr == [PageV1 EXCEPT !.og_title = NoAttr]

Pages == {PageV1, PageV2, PageNoAttr}
Fetches == {[ok |-> FALSE]} \cup {[ok |-> TRUE, soup |-> page] : page \in Pages}

TocHeadings ==
    { << <<"Current", " ", "Issue">>, <<"Vol", ".", " ", "5", " ", "No", ".", " ", "2">> >>,
      << <<"Archives">> >> }
TocPages ==
    {[headings |-> h, sel |-> <<l1, l2>>] :
        h \in TocHeadings, l1 \in BoundedSeq(ArticleURLs, 0, MaxDisc),
        l2 \in {<<>>, <<A2>>}}
    \cup {[headings |-> << <<"Archives">> >>, sel |-> <<<<KeyError>>, <<A1>>>>]}
TocFetches == {[ok |-> FALSE]} \cup {[ok |-> TRUE, soup |-> toc] : toc \in TocPages}

FinalURLs == {<<"http://", "www.", "j.org", "/", "a1", "/">>,
              <<"https://", "j.org", "/", "a2">>,
              <<"https://", "other.org", "/", "a1">>}
\* requests.head of a string that is no URL raises MissingSchema, a RequestException
HeadOutcomes(doi_url) ==
    IF doi_url = DOINotFound THEN {[err |-> TRUE]}
    ELSE {[err |-> TRUE]} \cup
         {[err |-> FALSE, status_code |-> c, pdf |-> b, url |-> u] :
             c \in {200, 404}, b \in BOOLEAN, u \in FinalURLs}

(***************************************************************************)
(* State.                                                                  *)
(***************************************************************************)
VARIABLES
    articles,             \* the articles table
    today,                \* the calendar day
    mode,                 \* "idle", "batch" (in process_links) or "validate"
    ops,                  \* user operations started so far
    tab,                  \* the tab that started the batch
    unique_new_links,     \* process_links: the deduplicated submission
    idx,                  \* process_links: position in unique_new_links
    scraped_urls,         \* process_links: the set of known links
    newly_scraped_count, updated_count, failed_links,
    inner,                \* process_links: inside the loop over discovered
    discovered,           \* process_links: discovered links still to scrape
    pre_scraped_volume,   \* process_links: the listing page's volume string
    df_to_validate,       \* validator: rows still to validate
    summary_file_upload, summary_paste_url, confirm_delete,   \* session state
    links_to_process,     \* history: the list submitted to this batch
    snapshot,             \* history: the links stored when this batch began
    log,                  \* history: what each step of this batch did
    last_fetch,           \* history: what the latest fetch of an article gave
    valSet,               \* history: the links of the last validator pass
    last_head,            \* history: the row and the response of the latest HEAD
    call                  \* a direct call of one function: its arguments and result

vars == <<articles, today, mode, ops, tab, unique_new_links, idx, scraped_urls,
          newly_scraped_count, updated_count, failed_links, inner, discovered,
          pre_scraped_volume, df_to_validate, summary_file_upload, summary_paste_url,
          confirm_delete, links_to_process, snapshot, log, last_fetch, valSet,
          last_head, call>>

batchVars == <<tab, unique_new_links, idx, scraped_urls, newly_scraped_count,
               updated_count, failed_links, inner, discovered, pre_scraped_volume,
               links_to_process, snapshot, log, last_fetch>>
validatorVars == <<df_to_validate, valSet, last_head>>
sessionVars == <<summary_file_upload, summary_paste_url, confirm_delete>>

\* The table persists between sessions: a session starts on what earlier scrapes
\* and validator passes left in it.
Scraped(url, page, pre) == scrape_website(url, [ok |-> TRUE, soup |-> page], pre)
StoredPair ==
    add_or_update_article(
        update_article_remark(
            add_or_update_article(<<>>, Scraped(A1, PageV1, None)),
            A1, RemarkMatch, IsoFormat(0)),
        Scraped(A2, PageV1, <<"5", "(", "2", ")">>))
StoredBoth ==
    add_or_update_article(
        update_article_remark(
            add_or_update_article(<<>>, Scraped(A2, PageV2, None)),
            A2, RemarkLinkError, IsoFormat(0)),
        Scraped(A1, PageV1, None))
StoredTables == {<<>>, StoredPair, StoredBoth}

NoFetch == [ok |-> FALSE]
NoHead == [link |-> None, head |-> [err |-> TRUE]]
NoCall == [fn |-> "none"]

\* no batch has run yet
NoBatch ==
    /\ tab = "file"
    /\ unique_new_links = <<>>
    /\ idx = 1
    /\ scraped_urls = {}
    /\ newly_scraped_count = 0
    /\ updated_count = 0
    /\ failed_links = <<>>
    /\ inner = FALSE
    /\ discovered = <<>>
    /\ pre_scraped_volume = None
    /\ links_to_process = <<>>
    /\ snapshot = {}
    /\ log = <<>>
    /\ last_fetch = NoFetch

NewSession ==
    /\ summary_file_upload = <<>>
    /\ summary_paste_url = <<>>
    /\ confirm_delete = FALSE

\* the application after start-up (app.py 10-13, 289-293)
Init ==
    /\ articles \in StoredTables
    /\ today = 0
    /\ mode = "idle"
    /\ ops = 0
    /\ NoBatch
    /\ df_to_validate = <<>>
    /\ NewSession
    /\ valSet = {}
    /\ last_head = NoHead
    /\ call = NoCall

(***************************************************************************)
(* process_links (app.py 295-335), one action per loop iteration.          *)
(***************************************************************************)
\* what one step did: the link, whether it was "submitted" or "discovered", whether
\* it was taken as an "article" or a "volume" link, how it was counted ("new",
\* "updated", "failed", or "found" for a volume link that yielded links), and the
\* links found
Event(url, src, kind, res, found) ==
    [url |-> url, src |-> src, kind |-> kind, res |-> res, found |-> found]

\* a batch that never adds to scraped_urls
MarkScraped_Skip(urls, link) == urls

\* scraped_urls.add(link): lines 324 and 333
MarkScraped(urls, link) == urls \cup {link}

\* a failure list that keeps only the latest failure
RecordFailed_Latest(failed, entry) == <<entry>>

\* failed_links.append(entry): lines 313, 325 and 334
RecordFailed(failed, entry) == Append(failed, entry)

\* a press of "Generate from File" or "Generate from Pasted URLs" with links:
\* lines 297-300
StartBatch ==
    /\ mode = "idle"
    /\ ops < MaxOps
    /\ \E links \in BoundedSeq(URLs, 1, MaxLinks), t \in {"file", "paste"} :
          /\ tab' = t
          /\ links_to_process' = links
          /\ unique_new_links' = Dedup(links)
    /\ scraped_urls' = LinksOf(get_all_articles_df(articles))
    /\ snapshot' = LinksOf(get_all_articles_df(articles))
    /\ newly_scraped_count' = 0
    /\ updated_count' = 0
    /\ failed_links' = <<>>
    /\ idx' = 1
    /\ inner' = FALSE
    /\ discovered' = <<>>
    /\ pre_scraped_volume' = None
    /\ log' = <<>>
    /\ last_fetch' = NoFetch
    /\ mode' = "batch"
    /\ ops' = ops + 1
    /\ UNCHANGED <<articles, today, validatorVars, sessionVars>>
    /\ UNCHANGED call

\* lines 319-325 and 328-334: scrape one article link and store the result
ScrapeAndStore(link, fetch, pre, src) ==
    LET result == scrape_website(link, fetch, pre)
        is_update == link \in scraped_urls
    IN  /\ last_fetch' = fetch
        /\ IF result # None
           THEN /\ articles' = add_or_update_article(articles, result)
                /\ IF is_update
                   THEN /\ updated_count' = updated_count + 1
                        /\ UNCHANGED newly_scraped_count
                   ELSE /\ newly_scraped_count' = newly_scraped_count + 1
                        /\ UNCHANGED updated_count
                /\ scraped_urls' = MarkScraped(scraped_urls, link)
                /\ UNCHANGED failed_links
                /\ log' = Append(log, Event(link, src, "article",
                                            IF is_update THEN "updated" ELSE "new", <<>>))
           ELSE /\ failed_links' = RecordFailed(failed_links, link)
                /\ UNCHANGED <<articles, updated_count, newly_scraped_count,
                               scraped_urls>>
                /\ log' = Append(log, Event(link, src, "article", "failed", <<>>))

\* one iteration of the outer loop for a single-article link: lines 302-303, 327-334
StepArticle ==
    /\ mode = "batch" /\ ~inner /\ idx <= Len(unique_new_links)
    /\ ~IsVolumeLink(unique_new_links[idx])
    /\ \E fetch \in Fetches :
          ScrapeAndStore(unique_new_links[idx], fetch, None, "submitted")
    /\ idx' = idx + 1
    /\ UNCHANGED <<today, mode, ops, tab, unique_new_links, inner, discovered,
                   pre_scraped_volume, validatorVars, sessionVars, links_to_process,
                   snapshot>>
    /\ UNCHANGED call

\* one iteration of the outer loop for a volume link, up to the inner loop:
\* lines 302-314
StepVolumeLink ==
    /\ mode = "batch" /\ ~inner /\ idx <= Len(unique_new_links)
    /\ IsVolumeLink(unique_new_links[idx])
    /\ \E volume \in {_extract_volume_from_toc_page(fetch) : fetch \in TocFetches},
          found \in {discover_article_links(fetch) : fetch \in TocFetches} :
          LET link == unique_new_links[idx]
          IN  /\ pre_scraped_volume' =
                     IF volume = VolumeNotFoundTOC THEN None ELSE volume
              /\ IF found = <<>>
                 THEN /\ failed_links' = RecordFailed(failed_links, VolumeLinkEntry(link))
                      /\ idx' = idx + 1
                      /\ UNCHANGED <<inner, discovered>>
                      /\ log' = Append(log, Event(link, "submitted", "volume", "failed",
                                                  <<>>))
                 ELSE /\ inner' = TRUE
                      /\ discovered' = found
                      /\ UNCHANGED <<failed_links, idx>>
                      /\ log' = Append(log, Event(link, "submitted", "volume", "found",
                                                  found))
    /\ UNCHANGED <<articles, today, mode, ops, tab, unique_new_links, scraped_urls,
                   newly_scraped_count, updated_count, validatorVars, sessionVars,
                   links_to_process, snapshot, last_fetch>>
    /\ UNCHANGED call

\* one iteration of the inner loop over the discovered links: lines 317-325
StepDiscovered ==
    /\ mode = "batch" /\ inner
    /\ \E fetch \in Fetches :
          ScrapeAndStore(Head(discovered), fetch, pre_scraped_volume, "discovered")
    /\ discovered' = Tail(discovered)
    /\ inner' = (Tail(discovered) # <<>>)
    /\ idx' = IF Tail(discovered) = <<>> THEN idx + 1 ELSE idx
    /\ UNCHANGED <<today, mode, ops, tab, unique_new_links, pre_scraped_volume,
                   validatorVars, sessionVars, links_to_process, snapshot>>
    /\ UNCHANGED call

\* line 335 and the caller's assignment of the summary (lines 424, 436)
FinishBatch ==
    /\ mode = "batch" /\ ~inner /\ idx > Len(unique_new_links)
    /\ LET summary == [new |-> newly_scraped_count, updated |-> updated_count,
                       failed_links |-> failed_links]
       IN  IF tab = "file"
           THEN summary_file_upload' = summary /\ UNCHANGED summary_paste_url
           ELSE summary_paste_url' = summary /\ UNCHANGED summary_file_upload
    /\ mode' = "idle"
    /\ UNCHANGED <<articles, today, ops, batchVars, validatorVars, confirm_delete>>
    /\ UNCHANGED call

(***************************************************************************)
(* The DOI validator (app.py 439-473).                                     *)
(***************************************************************************)
\* the two columns of a row the loop reads
ValidatorRow(r) == [link |-> r["Website Link"], doi |-> r["DOI/Link Updated"]]

\* a press of "Validate N Un-checked Articles" or "Re-validate all N Articles"
StartValidate ==
    /\ mode = "idle"
    /\ ops < MaxOps
    /\ \E which \in {"unchecked", "all"} :
          LET df == IF which = "unchecked" THEN get_unchecked_articles_df(articles)
                    ELSE get_all_articles_df(articles)
          IN  /\ df # <<>>
              /\ df_to_validate' = [i \in 1..Len(df) |-> ValidatorRow(df[i])]
              /\ valSet' = LinksOf(df)
    /\ mode' = "validate"
    /\ ops' = ops + 1
    /\ UNCHANGED <<articles, today, batchVars, sessionVars, last_head>>
    /\ UNCHANGED call

\* a loop that a failing request ends
StepValidate_Abort ==
    /\ mode = "validate" /\ df_to_validate # <<>>
    /\ LET row == Head(df_to_validate)
       IN  \E head \in HeadOutcomes(row.doi) :
              /\ last_head' = [link |-> row.link, head |-> head]
              /\ IF head.err
                 THEN /\ UNCHANGED articles
                      /\ df_to_validate' = <<>>
                 ELSE /\ articles' = update_article_remark(articles, row.link,
                                         ValidatorRemark(head, row.link),
                                         IsoFormat(today))
                      /\ df_to_validate' = Tail(df_to_validate)
    /\ UNCHANGED <<today, mode, ops, batchVars, sessionVars, valSet>>
    /\ UNCHANGED call

\* one iteration of the loop: lines 457-471
StepValidate ==
    /\ mode = "validate" /\ df_to_validate # <<>>
    /\ LET row == Head(df_to_validate)
       IN  \E head \in HeadOutcomes(row.doi) :
              /\ articles' = update_article_remark(articles, row.link,
                                 ValidatorRemark(head, row.link), IsoFormat(today))
              /\ last_head' = [link |-> row.link, head |-> head]
    /\ df_to_validate' = Tail(df_to_validate)
    /\ UNCHANGED <<today, mode, ops, batchVars, sessionVars, valSet>>
    /\ UNCHANGED call

\* lines 472-473
FinishValidate ==
    /\ mode = "validate" /\ df_to_validate = <<>>
    /\ mode' = "idle"
    /\ UNCHANGED <<articles, today, ops, batchVars, validatorVars, sessionVars>>
    /\ UNCHANGED call

(***************************************************************************)
(* Row deletion and the reset confirmation flow (app.py 521-529, 562-584). *)
(***************************************************************************)
DeleteRows ==
    /\ mode = "idle"
    /\ ops < MaxOps
    /\ \E links_to_delete \in (SUBSET LinksOf(articles)) \ {{}} :
          articles' = delete_articles_by_link(articles, links_to_delete)
    /\ ops' = ops + 1
    /\ UNCHANGED <<today, mode, batchVars, validatorVars, sessionVars>>
    /\ UNCHANGED call

PressReset ==
    /\ mode = "idle" /\ ~confirm_delete
    /\ confirm_delete' = TRUE
    /\ UNCHANGED <<articles, today, mode, ops, batchVars, validatorVars,
                   summary_file_upload, summary_paste_url>>
    /\ UNCHANGED call

\* a reset that wipes without a confirmation
PressYesDelete_Unconfirmed ==
    /\ mode = "idle"
    /\ articles' = clear_all_data(articles)
    /\ summary_file_upload' = <<>>
    /\ summary_paste_url' = <<>>
    /\ confirm_delete' = FALSE
    /\ UNCHANGED <<today, mode, ops, batchVars, validatorVars>>
    /\ UNCHANGED call

PressYesDelete ==
    /\ mode = "idle" /\ confirm_delete
    /\ articles' = clear_all_data(articles)
    /\ summary_file_upload' = <<>>
    /\ summary_paste_url' = <<>>
    /\ confirm_delete' = FALSE
    /\ UNCHANGED <<today, mode, ops, batchVars, validatorVars>>
    /\ UNCHANGED call

PressCancel ==
    /\ mode = "idle" /\ confirm_delete
    /\ confirm_delete' = FALSE
    /\ UNCHANGED <<articles, today, mode, ops, batchVars, validatorVars,
                   summary_file_upload, summary_paste_url>>
    /\ UNCHANGED call

\* midnight passes
AdvanceDay ==
    /\ mode # "batch"        \* process_links does not read the date
    /\ today < MaxDay
    /\ today' = today + 1
    /\ UNCHANGED <<articles, mode, ops, batchVars, validatorVars, sessionVars>>
    /\ UNCHANGED call

Next ==
    \/ StartBatch
    \/ StepArticle
    \/ StepVolumeLink
    \/ StepDiscovered
    \/ FinishBatch
    \/ StartValidate
    \/ StepValidate
    \/ FinishValidate
    \/ DeleteRows
    \/ PressReset
    \/ PressYesDelete
    \/ PressCancel
    \/ AdvanceDay

Spec == Init /\ [][Next]_vars

(***************************************************************************)
(* One call of process_links, on any stored table.                         *)
(***************************************************************************)
BatchInit ==
    /\ articles \in StoredTables
    /\ today = 0
    /\ mode = "batch"
    /\ ops = 1
    /\ tab = "paste"
    /\ links_to_process \in BoundedSeq(URLs, 1, MaxLinks)
    /\ unique_new_links = Dedup(links_to_process)
    /\ scraped_urls = LinksOf(get_all_articles_df(articles))
    /\ snapshot = LinksOf(get_all_articles_df(articles))
    /\ newly_scraped_count = 0
    /\ updated_count = 0
    /\ failed_links = <<>>
    /\ idx = 1
    /\ inner = FALSE
    /\ discovered = <<>>
    /\ pre_scraped_volume = None
    /\ log = <<>>
    /\ last_fetch = NoFetch
    /\ df_to_validate = <<>>
    /\ NewSession
    /\ valSet = {}
    /\ last_head = NoHead
    /\ call = NoCall

BatchNext ==
    \/ StepArticle
    \/ StepVolumeLink
    \/ StepDiscovered
    \/ FinishBatch

BatchSpec == BatchInit /\ [][BatchNext]_vars

(***************************************************************************)
(* One pass of the DOI validator, on any stored table.                     *)
(***************************************************************************)
ValidatorInit ==
    /\ articles \in StoredTables
    /\ today = 0
    /\ mode = "validate"
    /\ ops = 1
    /\ NoBatch
    /\ \E which \in {"unchecked", "all"} :
          LET df == IF which = "unchecked" THEN get_unchecked_articles_df(articles)
                    ELSE get_all_articles_df(articles)
          IN  /\ df # <<>>
              /\ df_to_validate = [i \in 1..Len(df) |-> ValidatorRow(df[i])]
              /\ valSet = LinksOf(df)
    /\ last_head = NoHead
    /\ call = NoCall
    /\ NewSession

ValidatorNext ==
    \/ StepValidate
    \/ FinishValidate
    \/ AdvanceDay

ValidatorSpec == ValidatorInit /\ [][ValidatorNext]_vars


(***************************************************************************)
(* The functions of app.py called directly, on pages of every shape.       *)
(***************************************************************************)
\* what soup.find of a meta tag can give: no tag, a tag without a content
\* attribute, a tag with the content v, a tag with empty content
TagShapes(v) == {NoTag, NoAttr, Meta(v), Meta(<<>>)}

\* pages that differ from PageV1 in the signals of one field
TitlePages ==
    {[PageV1 EXCEPT !.citation_journal_title = a, !.og_site_name = b, !.og_title = c,
                    !.citation_title = d, !.h1 = e] :
        a \in {NoTag, Meta(<<"J1">>)}, b \in {NoTag, NoAttr, Meta(<<"J1">>)},
        c \in {NoTag, NoAttr, Meta(<<"J1">>), Meta(<<"T1">>)},
        d \in {NoTag, NoAttr}, e \in {None, <<"T1">>}}
AuthorPages ==
    {[PageV1 EXCEPT !.citation_author = a] :
        a \in {<<>>, <<Meta(<<"Kim">>)>>, <<Meta(<<"Ann", " ", "Lee">>), NoAttr>>}}
DatePages ==
    {[PageV1 EXCEPT !.published = a, !.citation_publication_date = b] :
        a \in {None, <<"july", "2024">>},
        b \in {NoTag, NoAttr, Meta(<<>>), Meta(<<"2023">>),
               Meta(<<"2023", "/", "07", "/", "15">>), Meta(<<"2023", "/", "13", "/", "01">>),
               Meta(<<"2023", "/", "0">>), Meta(<<"2023", "/", "xx">>)}}
VolumePages ==
    {[PageV1 EXCEPT !.citation_volume = a, !.citation_issue = b] :
        a \in TagShapes(<<"4">>), b \in TagShapes(<<"1">>)}
PagePages ==
    {[PageV1 EXCEPT !.citation_firstpage = a, !.citation_lastpage = b, !.pages_span = c] :
        a \in TagShapes(<<"10">>), b \in TagShapes(<<"10">>) \cup {Meta(<<"20">>)},
        c \in {None, <<"1-9">>}}
OtherPages ==
    {[PageV1 EXCEPT !.section = a, !.og_description = b, !.abstract_div = c,
                    !.citation_keywords = d, !.citation_doi = e] :
        a \in {None, <<"Research papers">>}, b \in {NoTag, NoAttr, Meta(<<"abstract one">>)},
        c \in {None, <<"abstract two">>},
        d \in {NoTag, NoAttr, Meta(<<"k1", ";", "k2">>)},
        e \in {NoTag, NoAttr, Meta(<<"10.1234/x">>)}}
ExtractorPages ==
    TitlePages \cup AuthorPages \cup DatePages \cup VolumePages \cup PagePages
    \cup OtherPages \cup {PageV2}

\* what a caller passes as pre_scraped_volume_issue
PreScraped == {None, <<>>, VolumeNotFoundTOC, <<"5", "(", "2", ")">>, <<"5">>}

\* lines 188-198: every extractor applied to one parsed page
CallExtractors ==
    /\ mode = "call" /\ call = NoCall
    /\ \E soup \in ExtractorPages, pre \in PreScraped :
          call' = [fn |-> "extract", soup |-> soup, pre |-> pre,
                   journal |-> extract_journal_name(soup),
                   title |-> extract_paper_title(soup),
                   authors |-> extract_full_authors(soup),
                   date |-> extract_publication_date(soup),
                   type |-> extract_type(soup),
                   volume |-> extract_volume(soup, pre),
                   page |-> extract_page(soup),
                   abstract |-> extract_abstract(soup),
                   keywords |-> extract_keywords(soup),
                   doi |-> extract_doi(soup)]
    /\ UNCHANGED <<articles, today, mode, ops, batchVars, validatorVars, sessionVars>>

\* the keys the citation formatters read
CitationKeys ==
    {"Full Authors", "Year Published", "Paper Title", "Journal Name", "Volume", "Page",
     "month", "raw_doi"}

\* the dicts the formatters are called with: all keys or all but one, each value a
\* genuine one, an extractor's sentinel, or None
CitationData ==
    {[k \in keys |->
        CASE k = "Full Authors" -> a
          [] k = "Paper Title" -> t
          [] k = "Volume" -> v
          [] k = "Page" -> p
          [] k = "Year Published" -> d.year
          [] k = "month" -> d.month
          [] k = "Journal Name" -> <<"J1">>
          [] k = "raw_doi" -> <<"10.1234/x">>] :
        keys \in {CitationKeys} \cup {CitationKeys \ {k} : k \in CitationKeys},
        a \in {<<"Ann", " ", "Lee", ", ", "Bo", " ", "Kim">>, <<"Kim">>, AuthorsNotFound,
               None},
        t \in {<<"T1">>, TitleNotFound, None},
        v \in {<<"4", "(", "1", ")">>, <<"4">>, VolumeNotFound, None},
        p \in {<<"10", "-", "20">>, PageNotFound},
        d \in {[year |-> <<"2023">>, month |-> <<"Jul">>],
               [year |-> YearNotFound, month |-> None]}}

\* line 203: both citation formatters applied to one dict
CallCitations ==
    /\ mode = "call" /\ call = NoCall
    /\ \E data \in CitationData :
          call' = [fn |-> "cite", data |-> data,
                   apa |-> generate_apa_citation(data),
                   ieee |-> generate_ieee_citation(data)]
    /\ UNCHANGED <<articles, today, mode, ops, batchVars, validatorVars, sessionVars>>

\* listing pages whose selectors select anchors with and without href
ListingPages ==
    {[headings |-> << <<"Archives">> >>, sel |-> <<l1, l2>>] :
        l1 \in BoundedSeq(ArticleURLs \cup {KeyError}, 0, MaxDisc),
        l2 \in BoundedSeq(ArticleURLs \cup {KeyError}, 0, MaxDisc)}
ListingFetches ==
    {[ok |-> FALSE]} \cup {[ok |-> TRUE, soup |-> toc] : toc \in ListingPages}

\* discover_article_links called on one listing URL
CallDiscover ==
    /\ mode = "call" /\ call = NoCall
    /\ \E fetch \in ListingFetches :
          call' = [fn |-> "discover", fetch |-> fetch,
                   links |-> discover_article_links(fetch)]
    /\ UNCHANGED <<articles, today, mode, ops, batchVars, validatorVars, sessionVars>>

\* texts of the headings of listing pages
HeadingTexts ==
    {<<"Vol", ".", " ", "5", " ", "No", ".", " ", "2">>,
     <<"Volume", " ", "5", " ", "Issue", " ", "2", " ", "A">>,
     <<"Issue", " ", "2", " ", "(", "Vol", "5", ")">>,
     <<"Volume", " ", "12">>,
     <<"VOLUME", " ", "3", ",", " ", "November", " ", "2020">>,
     <<"Issue", " ", "2">>,
     <<"Volume", " ", "Notes">>,
     <<"Archives">>,
     <<>>}

\* _parse_volume_issue_string called on one text
CallParseVolume ==
    /\ mode = "call" /\ call = NoCall
    /\ \E text \in HeadingTexts :
          call' = [fn |-> "parse", text |-> text,
                   volume |-> FindVolume(text), issue |-> FindIssue(text),
                   parsed |-> _parse_volume_issue_string(text)]
    /\ UNCHANGED <<articles, today, mode, ops, batchVars, validatorVars, sessionVars>>

\* nothing stored, no batch and no validator pass running, no function called
CallInit ==
    /\ articles = <<>>
    /\ today = 0
    /\ mode = "call"
    /\ ops = 0
    /\ NoBatch
    /\ df_to_validate = <<>>
    /\ NewSession
    /\ valSet = {}
    /\ last_head = NoHead
    /\ call = NoCall

FunctionsNext ==
    \/ CallExtractors
    \/ CallCitations
    \/ CallDiscover
    \/ CallParseVolume

FunctionsSpec == CallInit /\ [][FunctionsNext]_vars

(***************************************************************************)
(* The volume of a record: the functions that compute it called directly,  *)
(* and one call of process_links on a collection link.                     *)
(***************************************************************************)
CollectionInit ==
    /\ articles \in StoredTables
    /\ today = 0
    /\ mode = "batch"
    /\ ops = 1
    /\ tab = "paste"
    /\ links_to_process = <<Vol7>>
    /\ unique_new_links = Dedup(links_to_process)
    /\ scraped_urls = LinksOf(get_all_articles_df(articles))
    /\ snapshot = LinksOf(get_all_articles_df(articles))
    /\ newly_scraped_count = 0
    /\ updated_count = 0
    /\ failed_links = <<>>
    /\ idx = 1
    /\ inner = FALSE
    /\ discovered = <<>>
    /\ pre_scraped_volume = None
    /\ log = <<>>
    /\ last_fetch = NoFetch
    /\ df_to_validate = <<>>
    /\ NewSession
    /\ valSet = {}
    /\ last_head = NoHead
    /\ call = NoCall

VolumeInit == CallInit \/ CollectionInit

VolumeNext ==
    \/ CallExtractors
    \/ CallParseVolume
    \/ StepVolumeLink
    \/ StepDiscovered
    \/ FinishBatch

VolumeSpec == VolumeInit /\ [][VolumeNext]_vars

(***************************************************************************)
(* Properties.                                                             *)
(***************************************************************************)
\* the positions of the rows keyed by link
RowsFor(table, link) == {i \in 1..Len(table) : table[i]["Website Link"] = link}

Last(seq) == seq[Len(seq)]
Range(seq) == {seq[i] : i \in 1..Len(seq)}
IsPrefix(p, q) == Len(p) <= Len(q) /\ SubSeq(q, 1, Len(p)) = p

\* the events of a successful scrape
IsSuccess(e) == e.kind = "article" /\ e.res \in {"new", "updated"}

\* C1: in every reachable state, whatever batches, validator passes, deletions and
\* resets ran, the table holds at most one row per "Website Link".
C1_OneRowPerLink ==
    \A i, j \in 1..Len(articles) :
        articles[i]["Website Link"] = articles[j]["Website Link"] => i = j

\* a batch has replaced the row of a link that was stored, beside another row
C1_Witness ==
    /\ Len(articles) = 2
    /\ \E k \in 1..Len(log) : log[k].res = "updated" /\ log[k].url \in snapshot

\* C2: when a link that is already stored is submitted again and its scrape
\* succeeds, the table holds exactly one row for it, every scraped column of that
\* row holds the value of this scrape, and the link is not put on failed_links
\* unless a scrape of it failed.
C2_ResubmitReplaces ==
    log # <<>> =>
        LET e == Last(log)
            second == scrape_website(e.url, last_fetch, None)
        IN  (e.src = "submitted" /\ e.kind = "article" /\ e.url \in snapshot
             /\ second # None) =>
                /\ Cardinality(RowsFor(articles, e.url)) = 1
                /\ \A i \in RowsFor(articles, e.url) :
                      \A c \in ScrapedColumns : articles[i][c] = second[c]
                /\ e.res # "failed"
                /\ Cardinality({i \in 1..Len(failed_links) : failed_links[i] = e.url})
                      = Cardinality({k \in 1..Len(log) :
                            log[k].url = e.url /\ log[k].res = "failed"})

\* A1, stored from the first version of its page, was submitted again and scraped
\* from the second version, which differs in every scraped column
C2_Witness ==
    /\ log # <<>> /\ Last(log).url = A1 /\ Last(log).src = "submitted"
    /\ A1 \in snapshot
    /\ last_fetch = [ok |-> TRUE, soup |-> PageV2]
    /\ \A c \in ScrapedColumns :
          Scraped(A1, PageV1, None)[c] # Scraped(A1, PageV2, None)[c]
    /\ \E i \in 1..Len(articles) : articles[i]["Paper Title"] = <<"T2">>

\* the links of a list in the order of their first occurrence
FirstIdx(links) == {i \in 1..Len(links) : \A j \in 1..(i - 1) : links[j] # links[i]}
FirstOccurrences(links) ==
    [k \in 1..Cardinality(FirstIdx(links)) |->
        links[CHOOSE i \in FirstIdx(links) :
                  Cardinality({j \in FirstIdx(links) : j < i}) = k - 1]]

UrlsOf(events) == [k \in 1..Len(events) |-> events[k].url]
\* the links the outer loop has taken, in order
OuterLoop == UrlsOf(SelectSeq(log, LAMBDA e : e.src = "submitted"))

\* C3 as stated: when the batch ends, the steps that processed a submitted link
\* (as a submitted or as a discovered link) are one per unique submitted link, in
\* the order of first occurrence.
C3_Original ==
    mode = "idle" =>
        UrlsOf(SelectSeq(log, LAMBDA e : e.url \in Range(links_to_process)))
            = FirstOccurrences(links_to_process)

\* C3 amended: the outer loop of process_links takes each unique submitted link
\* exactly once, in the order of first occurrence.
C3_OuterLoopOncePerLink ==
    /\ IsPrefix(OuterLoop, FirstOccurrences(links_to_process))
    /\ mode = "idle" => OuterLoop = FirstOccurrences(links_to_process)

\* a batch over a list whose first link occurs again after another link has ended
C3_Witness ==
    /\ mode = "idle"
    /\ Len(links_to_process) = 3
    /\ links_to_process[1] = links_to_process[3]
    /\ links_to_process[1] # links_to_process[2]
    /\ Len(OuterLoop) = 2

\* C4 as stated: a successful scrape counts as updated exactly when its link was
\* in the snapshot taken before the batch, so that the two counts depend on the
\* snapshot alone.
C4_Original ==
    /\ \A k \in 1..Len(log) :
          IsSuccess(log[k]) => (log[k].res = "updated" <=> log[k].url \in snapshot)
    /\ updated_count =
          Cardinality({k \in 1..Len(log) : IsSuccess(log[k]) /\ log[k].url \in snapshot})
    /\ newly_scraped_count =
          Cardinality({k \in 1..Len(log) : IsSuccess(log[k]) /\ log[k].url \notin snapshot})

\* C4 amended: a successful scrape counts as updated exactly when its link was in
\* the snapshot taken before the batch or was scraped successfully earlier in the
\* same batch; new counts the distinct links the batch added to the table.
C4_UpdatedIffKnown ==
    /\ \A k \in 1..Len(log) :
          IsSuccess(log[k]) =>
              (log[k].res = "updated" <=>
                  \/ log[k].url \in snapshot
                  \/ \E j \in 1..(k - 1) : IsSuccess(log[j]) /\ log[j].url = log[k].url)
    /\ updated_count = Cardinality({k \in 1..Len(log) : log[k].res = "updated"})
    /\ newly_scraped_count = Cardinality({k \in 1..Len(log) : log[k].res = "new"})
    /\ newly_scraped_count =
          Cardinality({log[k].url : k \in {h \in 1..Len(log) : IsSuccess(log[h])}}
                      \ snapshot)

\* a link that was not stored before the batch was scraped twice in it, and the
\* second scrape was counted as updated
C4_Witness ==
    \E j, k \in 1..Len(log) :
        /\ j < k /\ log[j].url = log[k].url /\ log[k].url \notin snapshot
        /\ log[j].res = "new" /\ log[k].res = "updated"
        /\ updated_count >= 1

\* the entry failed_links gets for a failed step
FailedEntry(e) == IF e.kind = "volume" THEN <<"(Volume Link) ">> \o e.url ELSE e.url
FailedEntries(events) ==
    LET failed == SelectSeq(events, LAMBDA e : e.res = "failed")
    IN  [k \in 1..Len(failed) |-> FailedEntry(failed[k])]

\* the steps a finished batch must have made: one per unique submitted link, each
\* volume link that yielded links followed by one step per link it yielded
RECURSIVE Complete(_, _)
Complete(events, todo) ==
    IF todo = <<>> THEN events = <<>>
    ELSE /\ events # <<>>
         /\ Head(events).url = Head(todo) /\ Head(events).src = "submitted"
         /\ LET n == Len(Head(events).found)
            IN  /\ Len(events) >= n + 1
                /\ \A i \in 1..n : /\ events[i + 1].src = "discovered"
                                   /\ events[i + 1].url = Head(events).found[i]
                /\ Complete(SubSeq(events, n + 2, Len(events)), Tail(todo))

\* C5: every failed step of a batch has its own entry on failed_links, in order;
\* every processed item is counted exactly once as new, updated or failed; and a
\* finished batch has processed every unique submitted link and every discovered
\* link, whatever failed before it.
C5_FailuresItemized ==
    /\ failed_links = FailedEntries(log)
    /\ newly_scraped_count + updated_count + Len(failed_links)
          = Cardinality({k \in 1..Len(log) : log[k].res # "found"})
    /\ mode = "idle" => Complete(log, FirstOccurrences(links_to_process))

\* a finished batch in which a submitted link and a discovered link failed, each
\* followed by a sibling that was scraped and stored
C5_Witness ==
    /\ mode = "idle"
    /\ \E j, k \in 1..Len(log) :
          /\ j < k /\ log[j].res = "failed" /\ log[j].src = "discovered"
          /\ log[k].src = "discovered" /\ IsSuccess(log[k])
    /\ \E j, k \in 1..Len(log) :
          /\ j < k /\ log[j].res = "failed" /\ log[j].src = "submitted"
          /\ log[k].src = "submitted" /\ IsSuccess(log[k])
    /\ Len(failed_links) >= 2

\* a step of the outer loop on a volume link whose discovery yielded no link
VolumeLinkMiss ==
    /\ mode = "batch" /\ ~inner /\ idx <= Len(unique_new_links)
    /\ IsVolumeLink(unique_new_links[idx])
    /\ log' # log /\ discovered' = <<>>

\* C6: a volume link whose discovery yields no link gets exactly one entry
\* "(Volume Link) <url>" on failed_links, adds nothing to the counts, writes
\* nothing to the table, and the batch goes on with the next link.
C6_VolumeLinkMiss ==
    [][VolumeLinkMiss =>
          /\ failed_links' = Append(failed_links,
                                    <<"(Volume Link) ">> \o unique_new_links[idx])
          /\ newly_scraped_count' = newly_scraped_count
          /\ updated_count' = updated_count
          /\ articles' = articles
          /\ mode' = "batch" /\ idx' = idx + 1 /\ inner' = FALSE]_vars

\* a volume link failed that way and the link after it was scraped and stored
C6_Witness ==
    \E k \in 1..Len(log) :
        /\ log[k].kind = "volume" /\ log[k].res = "failed"
        /\ k < Len(log) /\ IsSuccess(log[k + 1])
        /\ \E i \in 1..Len(failed_links) :
              failed_links[i] = <<"(Volume Link) ">> \o log[k].url

\* a step that scraped an article whose fetch failed
FetchFailed ==
    /\ mode = "batch" /\ log' # log
    /\ Last(log').kind = "article" /\ ~last_fetch'.ok

\* C7: when the fetch of an article fails, scrape_website gives no record and the
\* step leaves the table as it was: a row stored for the link keeps every value
\* and no row is created.
C7_FailedFetchStoresNothing ==
    [][FetchFailed =>
          /\ scrape_website(Last(log').url, last_fetch', pre_scraped_volume) = None
          /\ articles' = articles
          /\ Last(log').res = "failed"]_vars

\* the fetch of a stored link failed and its row is still the stored one
C7_Witness ==
    /\ log # <<>> /\ Last(log).url = A1 /\ Last(log).kind = "article"
    /\ ~last_fetch.ok
    /\ A1 \in snapshot
    /\ \E i \in 1..Len(articles) :
          /\ articles[i]["Website Link"] = A1
          /\ articles[i]["Paper Title"] = <<"T1">>

\* a step in which the validator wrote its remark for the head of its queue
ValidatorWrite ==
    mode = "validate" /\ df_to_validate # <<>> /\ df_to_validate' = Tail(df_to_validate)

\* C8: a validator write for link u changes only Remarks and last_validated of
\* the row keyed by u, changes no other row and creates or deletes none; and a
\* step that changes a scraped column of a row that stays is the upsert of a
\* successful scrape of its link.
C8_ValidatorFrame ==
    [][/\ ValidatorWrite =>
            /\ Len(articles') = Len(articles)
            /\ \A i \in 1..Len(articles) :
                  /\ \A c \in Columns \ {"Remarks", "last_validated"} :
                        articles'[i][c] = articles[i][c]
                  /\ articles[i]["Website Link"] # Head(df_to_validate).link
                        => articles'[i] = articles[i]
       /\ \A i \in 1..Len(articles) : \A j \in 1..Len(articles') :
            (/\ articles'[j]["Website Link"] = articles[i]["Website Link"]
             /\ \E c \in ScrapedColumns : articles'[j][c] # articles[i][c])
            => /\ mode = "batch"
               /\ Len(log') = Len(log) + 1
               /\ Last(log').url = articles[i]["Website Link"]
               /\ IsSuccess(Last(log'))]_vars

\* the validator has written a remark into one row of a table of two
C8_Witness ==
    /\ mode = "validate" /\ last_head.link # None
    /\ Len(articles) = 2
    /\ \E i, j \in 1..Len(articles) :
          /\ articles[i]["Website Link"] = last_head.link
          /\ articles[i]["Remarks"] = RemarkMismatch
          /\ articles[j]["Remarks"] = NotChecked

\* a URL without scheme and "www.", and without the slashes at its end
RECURSIVE DropTrailingSlashes(_)
DropTrailingSlashes(u) ==
    IF u # <<>> /\ Last(u) = "/" THEN DropTrailingSlashes(SubSeq(u, 1, Len(u) - 1))
    ELSE u
Stripped(u) ==
    DropTrailingSlashes(SelectSeq(u, LAMBDA t : t \notin {"https://", "http://", "www."}))

\* C9: the remark the validator writes follows a fixed priority: a transport
\* failure gives link-error; else HTTP 404 gives not-found; else a PDF content
\* type gives PDF, also when the final URL matches the source URL; else match when
\* the final URL equals the source URL after stripping scheme, "www." and trailing
\* slash, and mismatch otherwise.
C9_RemarkPriority ==
    last_head.link # None =>
        LET head == last_head.head
            row == articles[CHOOSE i \in 1..Len(articles) :
                                articles[i]["Website Link"] = last_head.link]
        IN  row["Remarks"] =
                CASE head.err -> <<"Link Error">>
                  [] ~head.err /\ head.status_code = 404 -> <<"Not Found (404)">>
                  [] ~head.err /\ head.status_code # 404 /\ head.pdf -> <<"PDF">>
                  [] OTHER ->
                       IF Stripped(head.url) = Stripped(last_head.link)
                       THEN <<"Match">> ELSE <<"Mismatch">>

\* a PDF response whose final URL matches the source URL was classified as PDF
C9_Witness ==
    /\ last_head.link = A1
    /\ ~last_head.head.err /\ last_head.head.status_code = 200 /\ last_head.head.pdf
    /\ last_head.head.url = <<"http://", "www.", "j.org", "/", "a1", "/">>
    /\ \E i \in 1..Len(articles) :
          articles[i]["Website Link"] = A1 /\ articles[i]["Remarks"] = <<"PDF">>

\* C10: a validator pass is not ended by a failing request: while rows are left
\* the next one can be taken, and when the pass has ended every row of its set has
\* one of the five remarks and a validation date.
C10_PassCompletes ==
    /\ (mode = "validate" /\ df_to_validate # <<>>) => ENABLED StepValidate
    /\ (mode = "idle" /\ valSet # {}) =>
          \A u \in valSet : \E i \in 1..Len(articles) :
              /\ articles[i]["Website Link"] = u
              /\ articles[i]["Remarks"] \in
                    {<<"Not Found (404)">>, <<"PDF">>, <<"Match">>, <<"Mismatch">>,
                     <<"Link Error">>}
              /\ articles[i]["last_validated"] # None

\* a pass over two rows has ended although the request for the first one failed
C10_Witness ==
    /\ mode = "idle" /\ Cardinality(valSet) = 2
    /\ Len(articles) = 2
    /\ articles[1]["Remarks"] = <<"Link Error">>
    /\ articles[2]["Remarks"] = <<"Match">>
    /\ articles[2]["last_validated"] = <<"day", "1">>


\* the record the latest step of a batch scraped, None when it scraped none
LastScraped ==
    IF log = <<>> \/ ~IsSuccess(Last(log)) THEN None
    ELSE scrape_website(Last(log).url, last_fetch,
                        IF Last(log).src = "discovered" THEN pre_scraped_volume ELSE None)

\* C11: in every record scrape_website produces and every row of the table, the
\* DOI link is "https://doi.org/" followed by the raw DOI when the raw DOI is not
\* the sentinel "DOI Not Found", and is the sentinel exactly when the raw DOI is.
C11_DoiLinkWellFormed ==
    /\ LastScraped # None =>
          LET raw == extract_doi(last_fetch.soup)
              link == LastScraped["DOI/Link Updated"]
          IN  /\ LastScraped["raw_doi"] = raw
              /\ raw # <<"DOI Not Found">> => link = <<"https://doi.org/">> \o raw
              /\ link = <<"DOI Not Found">> <=> raw = <<"DOI Not Found">>
              /\ \E i \in 1..Len(articles) :
                    /\ articles[i]["Website Link"] = Last(log).url
                    /\ articles[i]["DOI/Link Updated"] = link
    /\ \A i \in 1..Len(articles) :
          LET link == articles[i]["DOI/Link Updated"]
          IN  \/ link = <<"DOI Not Found">>
              \/ /\ Len(link) > 1 /\ Head(link) = "https://doi.org/"
                 /\ Tail(link) # <<"DOI Not Found">>

\* one row was just scraped from a page with a DOI, beside a row scraped from a
\* page without one
C11_Witness ==
    /\ LastScraped # None
    /\ LastScraped["raw_doi"] = <<"10.1234/x">>
    /\ \E i, j \in 1..Len(articles) :
          /\ articles[i]["Website Link"] = Last(log).url
          /\ articles[i]["DOI/Link Updated"] = <<"https://doi.org/", "10.1234/x">>
          /\ articles[j]["DOI/Link Updated"] = <<"DOI Not Found">>

\* the outputs of the extractors in a direct call
ExtractorOutputs ==
    {call.journal, call.title, call.authors, call.type, call.volume, call.page,
     call.abstract, call.keywords, call.doi}

\* C12 as stated: on every parsed page, whatever the shape of its signals, no
\* field extractor raises: each returns a text, a genuine value or its sentinel.
C12_Original ==
    call.fn = "extract" =>
        /\ \A out \in ExtractorOutputs :
              out \notin {<<"!KeyError">>, <<"!ValueError">>, <<"!IndexError">>}
        /\ "raise" \notin DOMAIN call.date

\* extract_publication_date was called on a page whose structured date has the
\* month segment 13, and raised IndexError
C12_Witness ==
    /\ call.fn = "extract"
    /\ call.soup.published = None
    /\ call.soup.citation_publication_date = Meta(<<"2023", "/", "13", "/", "01">>)
    /\ "raise" \in DOMAIN call.date
    /\ call.date["raise"] = <<"!IndexError">>

\* the keys each formatter reads
ApaFields ==
    {"Full Authors", "Year Published", "Paper Title", "Journal Name", "Volume", "Page",
     "raw_doi"}
IeeeFields == ApaFields \cup {"month"}

\* the author string is an extraction miss
AuthorsMissed(data) ==
    "Full Authors" \in DOMAIN data
    /\ data["Full Authors"] \in {<<"!None">>, <<"Authors Not Found">>}

\* C13 as stated: when a field a formatter reads is absent from the record, or
\* the author string is missing or is "Authors Not Found", the formatter returns
\* its fixed "could not be generated" message, not a partial citation.
C13_Original ==
    call.fn = "cite" =>
        /\ (~(ApaFields \subseteq DOMAIN call.data) \/ AuthorsMissed(call.data))
              => call.apa = <<"APA Citation could not be generated (missing data).">>
        /\ (~(IeeeFields \subseteq DOMAIN call.data) \/ AuthorsMissed(call.data))
              => call.ieee = <<"IEEE Citation could not be generated (missing data).">>

\* both formatters were called on a complete record whose author string is
\* "Authors Not Found" and returned citations that start with that sentinel
C13_Witness ==
    /\ call.fn = "cite"
    /\ DOMAIN call.data = IeeeFields
    /\ call.data["Full Authors"] = <<"Authors Not Found">>
    /\ call.data["Paper Title"] = <<"T1">>
    /\ call.apa # <<"APA Citation could not be generated (missing data).">>
    /\ call.ieee # <<"IEEE Citation could not be generated (missing data).">>
    /\ SubSeq(call.apa, 1, 2) = <<"Authors Not Found", ".">>
    /\ SubSeq(call.ieee, 1, 2) = <<"Authors Not Found", ",">>

\* both batch summaries are the empty dict
NoSummaries(file_upload, paste_url) == DOMAIN file_upload = {} /\ DOMAIN paste_url = {}

\* C14: the reset wipes the table only through the two-step confirmation.  A step
\* that empties a table with rows, other than a row deletion, starts with
\* confirm_delete set; confirm_delete gets set only by a step that leaves the
\* table and the summaries alone; "Cancel" clears confirm_delete and leaves the
\* table unchanged; after "YES, DELETE EVERYTHING" the table is empty, both
\* summaries are empty and confirm_delete is false.
C14_TwoStepReset ==
    [][/\ (articles # <<>> /\ articles' = <<>> /\ ops' = ops) => confirm_delete
       /\ (~confirm_delete /\ confirm_delete') =>
              /\ articles' = articles
              /\ summary_file_upload' = summary_file_upload
              /\ summary_paste_url' = summary_paste_url
       /\ PressCancel => (confirm_delete /\ ~confirm_delete' /\ articles' = articles)
       /\ PressYesDelete =>
              /\ confirm_delete /\ ~confirm_delete'
              /\ articles' = <<>>
              /\ NoSummaries(summary_file_upload', summary_paste_url')]_vars

\* a batch stored a record and set its summary, and a confirmed reset has wiped
\* the table and the summaries
C14_Witness ==
    /\ mode = "idle" /\ ~confirm_delete
    /\ \E k \in 1..Len(log) : IsSuccess(log[k])
    /\ articles = <<>>
    /\ NoSummaries(summary_file_upload, summary_paste_url)

\* a value that is there: neither None nor the empty text
Known(x) == x # <<"!None">> /\ x # <<>>

\* the rendering of a volume and an issue
Rendering(vol, iss, miss) ==
    IF Known(vol) /\ Known(iss) THEN vol \o <<"(">> \o iss \o <<")">>
    ELSE IF Known(vol) THEN vol
    ELSE miss

\* the content of a meta tag of a page, None without the tag
OwnContent(tag) == IF tag.k = "content" THEN tag.v ELSE <<"!None">>

\* the volume the page's own meta tags give
OwnVolume(soup) ==
    Rendering(OwnContent(soup.citation_volume), OwnContent(soup.citation_issue),
              <<"Volume Not Found">>)

\* C15, the volume of a record.  extract_volume returns a supplied pre-scraped
\* string that is not "Volume Not Found (from TOC)" unchanged, whatever the page's
\* own volume and issue tags hold; otherwise volume and issue both known give
\* "V(I)", the volume alone gives "V", else the sentinel.
C15_ExtractVolume ==
    call.fn = "extract" =>
        IF Known(call.pre) /\ call.pre # <<"Volume Not Found (from TOC)">>
        THEN call.volume = call.pre
        ELSE (call.soup.citation_volume.k # "noattr"
              /\ call.soup.citation_issue.k # "noattr")
                 => call.volume = OwnVolume(call.soup)

\* C15: the listing-page parser renders the volume and the issue it finds by the
\* same rule, the blanks inside the issue dropped.
C15_ParseVolume ==
    call.fn = "parse" =>
        call.parsed =
            Rendering(call.volume,
                      IF Known(call.issue)
                      THEN SelectSeq(call.issue, LAMBDA t : t # " ") ELSE call.issue,
                      <<"!None">>)

\* C15: every article discovered from a collection link is stored with the volume
\* string pre-scraped from that collection, and with its own volume when the
\* collection gave none.
C15_DiscoveredVolume ==
    /\ pre_scraped_volume \in
          ({_extract_volume_from_toc_page(fetch) : fetch \in TocFetches}
           \ {<<"Volume Not Found (from TOC)">>}) \cup {<<"!None">>}
    /\ (LastScraped # None /\ Last(log).src = "discovered") =>
          \E i \in 1..Len(articles) :
              /\ articles[i]["Website Link"] = Last(log).url
              /\ articles[i]["Volume"] =
                    IF pre_scraped_volume # <<"!None">> THEN pre_scraped_volume
                    ELSE OwnVolume(last_fetch.soup)

\* C15: the three parts; the pre-scraped string stays the same through the loop
\* over the discovered links.
C15_Volume ==
    /\ [](C15_ExtractVolume /\ C15_ParseVolume /\ C15_DiscoveredVolume)
    /\ [][(inner /\ inner') => pre_scraped_volume' = pre_scraped_volume]_vars

\* an article discovered from a collection was stored with the collection's
\* volume 5(2) although its own meta tags say 4(1)
C15_Witness ==
    /\ LastScraped # None /\ Last(log).src = "discovered"
    /\ last_fetch.soup = PageV1
    /\ pre_scraped_volume = <<"5", "(", "2", ")">>
    /\ OwnVolume(last_fetch.soup) = <<"4", "(", "1", ")">>
    /\ \E i \in 1..Len(articles) :
          /\ articles[i]["Website Link"] = Last(log).url
          /\ articles[i]["Volume"] = <<"5", "(", "2", ")">>

\* C16: extract_page renders first page and last page, both present: identical
\* gives that one text, different gives "first-last" with a dash between; when
\* either is missing the result is the text of the visible "pages" element if
\* the page has one, and the sentinel "Page Not Found" otherwise.
C16_PageRange ==
    (/\ call.fn = "extract"
     /\ call.soup.citation_firstpage.k # "noattr"
     /\ call.soup.citation_lastpage.k # "noattr") =>
        LET first == OwnContent(call.soup.citation_firstpage)
            last == OwnContent(call.soup.citation_lastpage)
        IN  IF Known(first) /\ Known(last)
            THEN call.page = IF first = last THEN first ELSE first \o <<"-">> \o last
            ELSE call.page = IF call.soup.pages_span # <<"!None">>
                             THEN call.soup.pages_span ELSE <<"Page Not Found">>

\* extract_page was called on a page whose first and last page are both 10, and
\* returned 10
C16_Witness ==
    /\ call.fn = "extract"
    /\ call.soup.citation_firstpage = Meta(<<"10">>)
    /\ call.soup.citation_lastpage = Meta(<<"10">>)
    /\ call.soup.pages_span = <<"1-9">>
    /\ call.page = <<"10">>

\* the links a selector yields: the href of every anchor it selects that has one
LinksYielded(anchors) == SelectSeq(anchors, LAMBDA a : a # <<"!KeyError">>)

\* C17 as stated: discover_article_links returns exactly the links of the first
\* selector, in priority order, that yields at least one link, and the empty list
\* when no selector yields a link or the fetch of the listing page fails.
C17_Original ==
    call.fn = "discover" =>
        call.links =
            IF ~call.fetch.ok THEN <<>>
            ELSE IF LinksYielded(call.fetch.soup.sel[1]) # <<>>
            THEN LinksYielded(call.fetch.soup.sel[1])
            ELSE LinksYielded(call.fetch.soup.sel[2])

\* the first selector selected only an anchor without href, the second selector
\* yields a link, and discover_article_links returned the empty list
C17_Witness ==
    /\ call.fn = "discover"
    /\ call.fetch.ok
    /\ call.fetch.soup.sel[1] = << <<"!KeyError">> >>
    /\ call.fetch.soup.sel[2] = <<A1>>
    /\ call.links = <<>>

\* C18: a successful scrape of a link replaces its whole row, validation state
\* included: from then on, until the validator runs again, the row's remark is
\* "Not Checked", its last_validated is absent, and get_unchecked_articles_df
\* returns it.
C18_RescrapeResetsValidation ==
    \A k \in 1..Len(log) :
        IsSuccess(log[k]) =>
            /\ \E i \in 1..Len(articles) :
                  /\ articles[i]["Website Link"] = log[k].url
                  /\ articles[i]["Remarks"] = <<"Not Checked">>
                  /\ articles[i]["last_validated"] = <<"!None">>
            /\ \E i \in 1..Len(get_unchecked_articles_df(articles)) :
                  get_unchecked_articles_df(articles)[i]["Website Link"] = log[k].url

\* the row of A1, validated as Match on day 0 before the batch (the table that
\* holds A2 with volume 5(2)), was scraped again by the first step of the batch
C18_Witness ==
    /\ Len(log) = 1 /\ IsSuccess(log[1]) /\ log[1].url = A1
    /\ A1 \in snapshot
    /\ StoredPair[1]["Remarks"] = <<"Match">>
    /\ StoredPair[1]["last_validated"] = <<"day", "0">>
    /\ articles[1] = StoredPair[2]
    /\ articles[2]["Website Link"] = A1
    /\ articles[2]["Remarks"] = <<"Not Checked">>

=============================================================================
